---- MODULE Spec2Model ----
(***************************************************************************)
(* A model of spaCyChatBot.py: the Telegram conversation state machine     *)
(* (main/start/cancel/help), the banter handler's per-sentence loop, the   *)
(* SentenceTyper and VerbFinder matchers, the five reply handlers and the  *)
(* point-of-view substitution povs / povs_c.                               *)
(*                                                                         *)
(* Text is a tuple of one-character strings, so that the regular           *)
(* expression's word boundaries and the handlers' concatenations are       *)
(* computed character by character.  Token and sentence positions are      *)
(* 1-based here and 0-based in the Python source.                          *)
(***************************************************************************)
EXTENDS Integers, Sequences, FiniteSets, TLC

VARIABLES
  pc,            \* position of the running code
  text,          \* the argument of re.sub(povs_c, ..., text)
  out,           \* the result of that substitution
  matched,       \* the matches re.sub replaced, in scan order
  conversations, \* ConversationHandler.conversations: chat -> state
  update,        \* the update the dispatcher is handling, its text annotated
  idx,           \* banter: index of the sentence of the for loop
  verbs_idxs,    \* banter: result of verbfinder(sentence.as_doc())
  handler,       \* banter: result of sentencetyper(sentence.as_doc())
  reply,         \* banter: the reply accumulated so far
  outbox,        \* messages delivered by reply_text for this update
  raised         \* the exception that escaped the handler, if any

vars == <<pc, text, out, matched, conversations, update, idx,
          verbs_idxs, handler, reply, outbox, raised>>

(***************************************************************************)
(* Bounds of the model.                                                    *)
(***************************************************************************)
MaxPieces == 3   \* a transformed text is made of at most this many pieces
MaxTokens == 3   \* an enumerated annotated sentence has at most this many tokens
MaxSents == 2    \* an incoming text message has at most this many sentences
NumChats == 2    \* chats talking to the bot

(***************************************************************************)
(* Python values.                                                          *)
(***************************************************************************)
None == [none |-> TRUE]
Some(x) == [val |-> x]

RECURSIVE Concat(_)
\* "".join(parts)
Concat(parts) ==
  IF parts = <<>> THEN <<>> ELSE Head(parts) \o Concat(Tail(parts))

RECURSIVE Join(_, _)
\* sep.join(parts)
Join(sep, parts) ==
  IF parts = <<>> THEN <<>>
  ELSE IF Len(parts) = 1 THEN parts[1]
  ELSE parts[1] \o sep \o Join(sep, Tail(parts))

UpperCase == <<"A","B","C","D","E","F","G","H","I","J","K","L","M","N","O","P","Q","R","S","T","U","V","W","X","Y","Z">>
LowerCase == <<"a","b","c","d","e","f","g","h","i","j","k","l","m","n","o","p","q","r","s","t","u","v","w","x","y","z">>
Digits == <<"0","1","2","3","4","5","6","7","8","9">>

\* str.lower() on one character
LowerChar(c) ==
  IF \E i \in 1..Len(UpperCase) : UpperCase[i] = c
  THEN LowerCase[CHOOSE i \in 1..Len(UpperCase) : UpperCase[i] = c]
  ELSE c

\* str.lower()
Lower(s) == [i \in 1..Len(s) |-> LowerChar(s[i])]

(***************************************************************************)
(* povs and povs_c: the point-of-view lexicon and its compiled pattern     *)
(* r'\b(I am|I was|...|you|me)\b'.                                         *)
(***************************************************************************)
\* the dict, in insertion order
povs ==
  << [k |-> <<"I"," ","a","m">>,     v |-> <<"y","o","u"," ","a","r","e">>],
     [k |-> <<"I"," ","w","a","s">>,    v |-> <<"y","o","u"," ","w","e","r","e">>],
     [k |-> <<"I","'","m">>,      v |-> <<"y","o","u","'","r","e">>],
     [k |-> <<"I","'","d">>,      v |-> <<"y","o","u","'","d">>],
     [k |-> <<"I","'","v","e">>,     v |-> <<"y","o","u","'","v","e">>],
     [k |-> <<"I","'","l","l">>,     v |-> <<"y","o","u","'","l","l">>],
     [k |-> <<"y","o","u"," ","a","r","e">>,  v |-> <<"I"," ","a","m">>],
     [k |-> <<"y","o","u"," ","w","e","r","e">>, v |-> <<"I"," ","w","a","s">>],
     [k |-> <<"y","o","u","'","r","e">>,   v |-> <<"I","'","m">>],
     [k |-> <<"y","o","u","'","d">>,    v |-> <<"I","'","d">>],
     [k |-> <<"y","o","u","'","v","e">>,   v |-> <<"I","'","v","e">>],
     [k |-> <<"y","o","u","'","l","l">>,   v |-> <<"I","'","l","l">>],
     [k |-> <<"I">>,        v |-> <<"y","o","u">>],
     [k |-> <<"m","y">>,       v |-> <<"y","o","u","r">>],
     [k |-> <<"y","o","u","r">>,     v |-> <<"m","y">>],
     [k |-> <<"y","o","u","r","s">>,    v |-> <<"m","i","n","e">>],
     [k |-> <<"y","o","u">>,      v |-> <<"I">>],
     [k |-> <<"m","e">>,       v |-> <<"y","o","u">>] >>

\* povs.get(key)
povs_get(key) ==
  IF \E n \in 1..Len(povs) : povs[n].k = key
  THEN povs[CHOOSE n \in 1..Len(povs) : povs[n].k = key].v
  ELSE None

\* Alternatives, changed: the one-word keys are tried before the longer ones
AlternativesShortFirst ==
  [n \in 1..Len(povs) |-> povs[Len(povs) + 1 - n].k]

\* the alternatives of povs_c, '|'.join(re.escape(pov) for pov in povs): the
\* keys in the dict's order, tried in that order at each position
Alternatives == [n \in 1..Len(povs) |-> povs[n].k]

\* \w
WordChars ==
  {UpperCase[i] : i \in 1..Len(UpperCase)} \cup {LowerCase[i] : i \in 1..Len(LowerCase)}
    \cup {Digits[i] : i \in 1..Len(Digits)} \cup {"_"}

IsWordChar(c) == c \in WordChars

\* WordBoundary, changed: the pattern without its \b anchors
WordBoundaryAnywhere(s, p) == p \in 1..(Len(s) + 1)

\* \b at the gap before s[p]: exactly one side of the gap is a word character
\* (the ends of the string count as non-word)
WordBoundary(s, p) ==
  LET before == p > 1 /\ IsWordChar(s[p - 1])
      after == p <= Len(s) /\ IsWordChar(s[p])
  IN before # after

\* alternative `key` of povs_c, and the closing \b, match s from position i on
AltMatchesAt(s, i, key) ==
  /\ i + Len(key) - 1 <= Len(s)
  /\ \A j \in 1..Len(key) : s[i + j - 1] = key[j]
  /\ WordBoundary(s, i + Len(key))

\* the match of povs_c at position i: the first alternative, in the pattern's
\* order, that matches there (0: no match at i).  Every alternative starts
\* after the leading \b.
MatchAt(s, i) ==
  IF ~WordBoundary(s, i) THEN 0
  ELSE LET alts == Alternatives
           ok == {n \in 1..Len(alts) : AltMatchesAt(s, i, alts[n])}
       IN IF ok = {} THEN 0 ELSE CHOOSE n \in ok : \A m \in ok : n <= m

RECURSIVE finditer(_, _)
\* the non-overlapping matches of povs_c in s from position i on, left to right
finditer(s, i) ==
  IF i > Len(s) THEN <<>>
  ELSE LET n == MatchAt(s, i)
       IN IF n = 0 THEN finditer(s, i + 1)
          ELSE <<[start |-> i, key |-> Alternatives[n]]>>
                 \o finditer(s, i + Len(Alternatives[n]))

RECURSIVE sub(_, _)
\* re.sub(povs_c, lambda match: povs.get(match.group()), s), from position i on:
\* one pass over s, the replacement text is never scanned
sub(s, i) ==
  IF i > Len(s) THEN <<>>
  ELSE LET n == MatchAt(s, i)
       IN IF n = 0 THEN <<s[i]>> \o sub(s, i + 1)
          ELSE povs_get(Alternatives[n]) \o sub(s, i + Len(Alternatives[n]))

\* re.sub(povs_c, lambda match: povs.get(match.group()), s)
transform(s) == sub(s, 1)

(***************************************************************************)
(* The annotated sentence: what nlp(...) and doc.sents hand to the code.   *)
(* A token carries text, whitespace_, tag_, pos_, lemma_, dep_, head (the  *)
(* position of its head in the sentence; a root is its own head) and       *)
(* is_sent_start.  A noun chunk is a span with the position of its root.   *)
(***************************************************************************)
\* Span.text of tokens[a..b]: each token's text and trailing whitespace, the
\* last token's whitespace left out
SpanText(tokens, a, b) ==
  IF a > b THEN <<>>
  ELSE Concat([i \in 1..(b - a + 1) |->
                 IF a + i - 1 < b
                 THEN tokens[a + i - 1].text \o tokens[a + i - 1].ws
                 ELSE tokens[a + i - 1].text])

\* sentence.text
SentenceText(sentence) == SpanText(sentence.tokens, 1, Len(sentence.tokens))

\* chunk.text
ChunkText(sentence, chunk) == SpanText(sentence.tokens, chunk.start, chunk.end)

(***************************************************************************)
(* spacy.matcher.Matcher, as SentenceTyper uses it.                        *)
(***************************************************************************)
\* one token specification of a pattern against one token; an attribute the
\* specification does not name is not constrained (LEMMA_ stands for LEMMA)
TokenMatches(tok, spec) ==
  /\ "IS_SENT_START" \in DOMAIN spec => tok.is_sent_start = spec.IS_SENT_START
  /\ "TAG" \in DOMAIN spec => tok.tag \in spec.TAG
  /\ "POS" \in DOMAIN spec => tok.pos \in spec.POS
  /\ "DEP" \in DOMAIN spec => tok.dep \in spec.DEP
  /\ "LOWER" \in DOMAIN spec => Lower(tok.text) \in spec.LOWER
  /\ "LEMMA_" \in DOMAIN spec => tok.lemma \in spec.LEMMA_

\* a token pattern matches the tokens from position s on
PatternMatchesAt(tokens, s, pattern) ==
  /\ s + Len(pattern) - 1 <= Len(tokens)
  /\ \A j \in 1..Len(pattern) : TokenMatches(tokens[s + j - 1], pattern[j])

\* SentenceTyper.__init__: the patterns in the order self.add registers them
SentenceTyperPatterns ==
  << [key |-> "WH-QUESTION",
      pattern |-> << [IS_SENT_START |-> TRUE, TAG |-> {"WDT", "WP", "WP$", "WRB"}] >>],
     [key |-> "YN-QUESTION",
      pattern |-> << [IS_SENT_START |-> TRUE, TAG |-> {"MD"}],
                     [POS |-> {"PRON", "PROPN", "DET"}] >>],
     [key |-> "YN-QUESTION",
      pattern |-> << [IS_SENT_START |-> TRUE, POS |-> {"VERB"}],
                     [POS |-> {"PRON", "PROPN", "DET"}],
                     [POS |-> {"VERB"}] >>],
     [key |-> "INSTRUCTION",
      pattern |-> << [IS_SENT_START |-> TRUE, TAG |-> {"VB"}] >>],
     [key |-> "INSTRUCTION",
      pattern |-> << [IS_SENT_START |-> TRUE, LOWER |-> {<<"p","l","e","a","s","e">>, <<"k","i","n","d","l","y">>}],
                     [TAG |-> {"VB"}] >>],
     [key |-> "WISH",
      pattern |-> << [IS_SENT_START |-> TRUE, TAG |-> {"PRP"}],
                     [TAG |-> {"MD"}],
                     [POS |-> {"VERB"}, LEMMA_ |-> {"love", "like", "appreciate"}] >>],
     [key |-> "WISH",
      pattern |-> << [IS_SENT_START |-> TRUE, TAG |-> {"PRP"}],
                     [POS |-> {"VERB"}, LEMMA_ |-> {"want", "need", "require"}] >>] >>

\* find_matches of Matcher.__call__ (super().__call__ of SentenceTyper): the
\* matcher walks the tokens once and reports a match when its last token is
\* reached, so the matches come ordered by end position, then by start
\* position, then by the order the patterns were added; a (key, start, end) is
\* reported once.  Candidate c of 1..n*n*P stands for (end, start, pattern) in
\* that order.
find_matches(patterns, tokens) ==
  LET n == Len(tokens)
      P == Len(patterns)
      e(c) == ((c - 1) \div (n * P)) + 1
      s(c) == (((c - 1) \div P) % n) + 1
      p(c) == ((c - 1) % P) + 1
      hit(c) == /\ e(c) - s(c) + 1 = Len(patterns[p(c)].pattern)
                /\ PatternMatchesAt(tokens, s(c), patterns[p(c)].pattern)
      m(c) == [match_id |-> patterns[p(c)].key, start |-> s(c), end |-> e(c)]
      hits == SelectSeq([c \in 1..(n * n * P) |-> c], hit)
      first == SelectSeq([j \in 1..Len(hits) |-> j],
                         LAMBDA j : \A i \in 1..(j - 1) : m(hits[i]) # m(hits[j]))
  IN [j \in 1..Len(first) |-> m(hits[first[j]])]

\* Matcher.__call__: the matches, no key having a filter or a callback
Matcher(patterns, tokens) == find_matches(patterns, tokens)

\* SentenceTyper, changed: the last match is inspected instead of the first
SentenceTyperLastMatch(tokens) ==
  LET matches == Matcher(SentenceTyperPatterns, tokens)
  IN IF matches # <<>>
     THEN LET match_id == matches[Len(matches)].match_id
          IN IF match_id = "WH-QUESTION" THEN Some("wh_question_handler")
             ELSE IF match_id = "YN-QUESTION" THEN Some("yn_question_handler")
             ELSE IF match_id = "WISH" THEN Some("wish_handler")
             ELSE IF match_id = "INSTRUCTION" THEN Some("instruction_handler")
             ELSE None
     ELSE Some("generic_handler")

\* SentenceTyper, changed: the INSTRUCTION branch is missing, so the
\* function falls off its end
SentenceTyperNoInstruction(tokens) ==
  LET matches == Matcher(SentenceTyperPatterns, tokens)
  IN IF matches # <<>>
     THEN LET match_id == matches[1].match_id
          IN IF match_id = "WH-QUESTION" THEN Some("wh_question_handler")
             ELSE IF match_id = "YN-QUESTION" THEN Some("yn_question_handler")
             ELSE IF match_id = "WISH" THEN Some("wish_handler")
             ELSE None
     ELSE Some("generic_handler")

\* SentenceTyper.__call__: the handler of the first match; generic_handler when
\* there is no match; None (the function falls off its end) for a first match
\* of a key without a branch
SentenceTyper(tokens) ==
  LET matches == Matcher(SentenceTyperPatterns, tokens)
  IN IF matches # <<>>
     THEN LET match_id == matches[1].match_id
          IN IF match_id = "WH-QUESTION" THEN Some("wh_question_handler")
             ELSE IF match_id = "YN-QUESTION" THEN Some("yn_question_handler")
             ELSE IF match_id = "WISH" THEN Some("wish_handler")
             ELSE IF match_id = "INSTRUCTION" THEN Some("instruction_handler")
             ELSE None
     ELSE Some("generic_handler")

(***************************************************************************)
(* spacy.matcher.DependencyMatcher, as VerbFinder uses it.                 *)
(***************************************************************************)
\* VerbFinderPatterns, changed: the bare root pattern is registered first
VerbFinderPatternsRootFirst ==
  << << [RIGHT_ID |-> "root", RIGHT_ATTRS |-> [DEP |-> {"ROOT"}]] >>,
     << [RIGHT_ID |-> "root", RIGHT_ATTRS |-> [DEP |-> {"ROOT"}]],
        [LEFT_ID |-> "root", REL_OP |-> ">", RIGHT_ID |-> "auxiliary",
         RIGHT_ATTRS |-> [POS |-> {"AUX"}]] >>,
     << [RIGHT_ID |-> "root", RIGHT_ATTRS |-> [DEP |-> {"ROOT"}]],
        [LEFT_ID |-> "root", REL_OP |-> ">", RIGHT_ID |-> "auxiliary",
         RIGHT_ATTRS |-> [TAG |-> {"VB"}]],
        [LEFT_ID |-> "root", REL_OP |-> ">", RIGHT_ID |-> "modal",
         RIGHT_ATTRS |-> [TAG |-> {"MD"}]] >> >>

\* VerbFinder.__init__: the three patterns of "VERBPHRASE", in the list's order
VerbFinderPatterns ==
  << << [RIGHT_ID |-> "root", RIGHT_ATTRS |-> [DEP |-> {"ROOT"}]],
        [LEFT_ID |-> "root", REL_OP |-> ">", RIGHT_ID |-> "auxiliary",
         RIGHT_ATTRS |-> [TAG |-> {"VB"}]],
        [LEFT_ID |-> "root", REL_OP |-> ">", RIGHT_ID |-> "modal",
         RIGHT_ATTRS |-> [TAG |-> {"MD"}]] >>,
     << [RIGHT_ID |-> "root", RIGHT_ATTRS |-> [DEP |-> {"ROOT"}]],
        [LEFT_ID |-> "root", REL_OP |-> ">", RIGHT_ID |-> "auxiliary",
         RIGHT_ATTRS |-> [POS |-> {"AUX"}]] >>,
     << [RIGHT_ID |-> "root", RIGHT_ATTRS |-> [DEP |-> {"ROOT"}]] >> >>

\* the position in `pattern` of the node named id
NodeIndex(pattern, id) ==
  CHOOSE j \in 1..Len(pattern) : pattern[j].RIGHT_ID = id

\* the matches of one dependency pattern: every binding of its nodes to tokens
\* in which each node's token has the node's attributes and, for "LEFT > RIGHT",
\* the token of RIGHT is a child of the token of LEFT (its head, and not itself)
TreeMatches(tokens, pattern) ==
  {f \in [1..Len(pattern) -> 1..Len(tokens)] :
     \A j \in 1..Len(pattern) :
        /\ TokenMatches(tokens[f[j]], pattern[j].RIGHT_ATTRS)
        /\ "LEFT_ID" \in DOMAIN pattern[j] =>
             /\ pattern[j].REL_OP = ">"
             /\ tokens[f[j]].head = f[NodeIndex(pattern, pattern[j].LEFT_ID)]
             /\ f[j] # f[NodeIndex(pattern, pattern[j].LEFT_ID)]}

\* the first pattern, in the order of the list, that has a match (0: none)
FirstMatchingPattern(tokens, patterns) ==
  LET hit == {p \in 1..Len(patterns) : TreeMatches(tokens, patterns[p]) # {}}
  IN IF hit = {} THEN 0 ELSE CHOOSE p \in hit : \A q \in hit : p <= q

RECURSIVE sorted(_)
\* sorted(token_idxs), of a set of positions
sorted(S) ==
  IF S = {} THEN <<>>
  ELSE LET lo == CHOOSE x \in S : \A y \in S : x <= y
       IN <<lo>> \o sorted(S \ {lo})

\* sorted(token_idxs) of a list of positions: a sort keeps repeated positions
SortedList(f) ==
  LET count(x) == Cardinality({j \in DOMAIN f : f[j] = x})
      RECURSIVE rep(_, _)
      rep(x, k) == IF k = 0 THEN <<>> ELSE <<x>> \o rep(x, k - 1)
      s == sorted({f[j] : j \in DOMAIN f})
  IN Concat([i \in 1..Len(s) |-> rep(s[i], count(s[i]))])

\* VerbFinder.__call__: the values it can return.  DependencyMatcher reports the
\* matches pattern by pattern in the order of the list; the order of the
\* matches of one pattern is its own business, so verbmatches[0] is any match
\* of the first pattern that has one.  Without a match the function returns
\* nothing, which is None.
VerbFinder(tokens) ==
  LET p == FirstMatchingPattern(tokens, VerbFinderPatterns)
  IN IF p = 0 THEN {None}
     ELSE {Some(SortedList(f)) : f \in TreeMatches(tokens, VerbFinderPatterns[p])}

(***************************************************************************)
(* The reply handlers.  A call returns Returned(text) or Raises(exception);*)
(* p and s are the values the two random.choice calls return.              *)
(***************************************************************************)
Returned(t) == [ok |-> TRUE, text |-> t]
Raises(e) == [ok |-> FALSE, exc |-> e]

\* [chunk.text for chunk in sentence.noun_chunks if chunk.root.dep_ == dep]
ChunkTexts(sentence, dep) ==
  LET hit == SelectSeq(sentence.noun_chunks,
                       LAMBDA chunk : sentence.tokens[chunk.root].dep = dep)
  IN [i \in 1..Len(hit) |-> ChunkText(sentence, hit[i])]

\* " ".join([sentence[i].text.lower() for i in verbs_idxs])
VerbText(sentence, idxs) ==
  Join(<<" ">>, [j \in 1..Len(idxs) |-> Lower(sentence.tokens[idxs[j]].text)])

\* the first element of `part`, if any, as a list to extend reply with
FirstOf(part) == IF part # <<>> THEN <<part[1]>> ELSE <<>>

wh_prefixes == {<<"I"," ","d","o","n","'","t"," ","k","n","o","w"," ">>, <<"I"," ","c","a","n","'","t"," ","s","a","y"," ">>}
wh_suffixes ==
  {<<","," ","b","u","t"," ","I","'","l","l"," ","t","r","y"," ","t","o"," ","f","i","n","d"," ","o","u","t"," ","f","o","r"," ","y","o","u","."," ","P","l","e","a","s","e"," ","c","h","e","c","k"," ","i","n"," ","w","i","t","h"," ","m","e"," ","a","g","a","i","n"," ","l","a","t","e","r",".">>,
   <<","," ","b","u","t"," ","p","e","r","h","a","p","s"," ","t","h","a","t","'","s"," ","s","o","m","e","t","h","i","n","g"," ","I","'","d"," ","b","e"," ","a","b","l","e"," ","t","o"," ","f","i","n","d"," ","o","u","t"," ","f","o","r"," ","y","o","u","."," ","R","e","m","i","n","d"," ","m","e",","," ","i","f"," ","I"," ","f","o","r","g","e","t",".">>,
   <<"."," ","I","'","l","l"," ","s","e","e"," ","i","f"," ","I"," ","c","a","n"," ","f","i","n","d"," ","o","u","t",","," ","t","h","o","u","g","h","."," ","A","s","k"," ","m","e"," ","a","g","a","i","n"," ","s","o","m","e","t","i","m","e",".">>}

\* wh_question_handler without the re.sub over the joined parts
wh_question_handler_untransformed(sentence, idxs, p, s) ==
  IF sentence.tokens = <<>> THEN Raises("IndexError")
  ELSE IF idxs = None THEN Raises("TypeError")
  ELSE LET parts == <<Lower(sentence.tokens[1].text)>>
                      \o FirstOf(ChunkTexts(sentence, "nsubj"))
                      \o <<VerbText(sentence, idxs.val)>>
                      \o FirstOf(ChunkTexts(sentence, "dobj"))
       IN Returned(p \o Join(<<" ">>, parts) \o s)

\* wh_question_handler: sentence[0] raises IndexError on an empty sentence and
\* iterating verbs_idxs raises TypeError when it is None
wh_question_handler(sentence, idxs, p, s) ==
  IF sentence.tokens = <<>> THEN Raises("IndexError")
  ELSE IF idxs = None THEN Raises("TypeError")
  ELSE LET parts == <<Lower(sentence.tokens[1].text)>>
                      \o FirstOf(ChunkTexts(sentence, "nsubj"))
                      \o <<VerbText(sentence, idxs.val)>>
                      \o FirstOf(ChunkTexts(sentence, "dobj"))
       IN Returned(p \o transform(Join(<<" ">>, parts)) \o s)

yn_prefixes == {<<"I"," ","d","o","n","'","t"," ","k","n","o","w"," ","w","h","e","t","h","e","r"," ">>, <<"I"," ","c","a","n","'","t"," ","s","a","y"," ","i","f"," ">>}
yn_suffixes ==
  {<<" ","a","t"," ","t","h","i","s"," ","v","e","r","y"," ","m","o","m","e","n","t","."," ","L","e","t"," ","m","e"," ","f","i","n","d"," ","o","u","t",".">>,
   <<"."," ","I"," ","m","a","y"," ","h","a","v","e"," ","t","o"," ","t","h","i","n","k"," ","a","b","o","u","t"," ","t","h","i","s"," ","s","o","m","e"," ","m","o","r","e",".">>}

\* yn_question_handler: iterating verbs_idxs raises TypeError when it is None
yn_question_handler(sentence, idxs, p, s) ==
  IF idxs = None THEN Raises("TypeError")
  ELSE LET parts == FirstOf(ChunkTexts(sentence, "nsubj"))
                      \o <<VerbText(sentence, idxs.val)>>
                      \o FirstOf(ChunkTexts(sentence, "dobj"))
       IN Returned(p \o transform(Join(<<" ">>, parts)) \o s)

wish_prefixes == {<<"U","n","d","e","r","s","t","o","o","d",":"," ">>, <<"G","o","t"," ","i","t",":"," ">>}
wish_suffixes == {<<" ","I","'","l","l"," ","s","e","e"," ","w","h","a","t"," ","I"," ","c","a","n"," ","d","o",".">>, <<>>}

\* wish_handler
wish_handler(sentence, idxs, p, s) ==
  Returned(p \o transform(SentenceText(sentence)) \o s)

instruction_prefixes == {<<"U","n","d","e","r","s","t","o","o","d",":"," ">>, <<"G","o","t"," ","i","t",":"," ">>}
instruction_suffixes == {<<" ","W","h","a","t"," ","d","o"," ","y","o","u"," ","t","h","i","n","k"," ","a","b","o","u","t"," ","t","h","a","t","?">>, <<" ","T","h","a","n","k","s"," ","f","o","r"," ","s","h","a","r","i","n","g",".">>}

\* instruction_handler, changed: the sentence is echoed without the
\* point-of-view substitution
instruction_handler_echo(sentence, idxs, p, s) ==
  Returned(p \o SentenceText(sentence) \o s)

\* instruction_handler
instruction_handler(sentence, idxs, p, s) ==
  Returned(p \o transform(SentenceText(sentence)) \o s)

\* generic_handler
generic_handler(sentence, idxs) ==
  Returned(transform(SentenceText(sentence)))

\* the values random.choice can return for the prefix in handler h
Prefixes(h) ==
  IF h = Some("wh_question_handler") THEN wh_prefixes
  ELSE IF h = Some("yn_question_handler") THEN yn_prefixes
  ELSE IF h = Some("wish_handler") THEN wish_prefixes
  ELSE IF h = Some("instruction_handler") THEN instruction_prefixes
  ELSE {<<>>}

\* the values random.choice can return for the suffix in handler h
Suffixes(h) ==
  IF h = Some("wh_question_handler") THEN wh_suffixes
  ELSE IF h = Some("yn_question_handler") THEN yn_suffixes
  ELSE IF h = Some("wish_handler") THEN wish_suffixes
  ELSE IF h = Some("instruction_handler") THEN instruction_suffixes
  ELSE {<<>>}

\* (sentencetyper(sentence.as_doc()))(nlp, sentence, verbs_idxs): the call of
\* the handler the typer returned; calling None raises TypeError
Call(h, sentence, idxs, p, s) ==
  IF h = Some("wh_question_handler") THEN wh_question_handler(sentence, idxs, p, s)
  ELSE IF h = Some("yn_question_handler") THEN yn_question_handler(sentence, idxs, p, s)
  ELSE IF h = Some("wish_handler") THEN wish_handler(sentence, idxs, p, s)
  ELSE IF h = Some("instruction_handler") THEN instruction_handler(sentence, idxs, p, s)
  ELSE IF h = Some("generic_handler") THEN generic_handler(sentence, idxs)
  ELSE Raises("TypeError")

(***************************************************************************)
(* Annotated sentences the model runs the code on.                         *)
(***************************************************************************)
\* one token as the annotator delivers it
Tok(txt, ws, tag, pos, lemma, dep, head) ==
  [text |-> txt, ws |-> ws, tag |-> tag, pos |-> pos, lemma |-> lemma,
   dep |-> dep, head |-> head]

\* a sentence of doc.sents: only its first token is a sentence start
AsSentence(toks, chunks) ==
  [tokens |-> [i \in 1..Len(toks) |-> [is_sent_start |-> (i = 1)] @@ toks[i]],
   noun_chunks |-> chunks]

Chunk(a, b, r) == [start |-> a, end |-> b, root |-> r]

\* sentences annotated the way en_core_web_sm's tagger and parser label them
WhatIsYourName ==
  AsSentence(<< Tok(<<"W","h","a","t">>, <<" ">>, "WP", "PRON", "what", "attr", 2),
                Tok(<<"i","s">>, <<" ">>, "VBZ", "AUX", "be", "ROOT", 2),
                Tok(<<"y","o","u","r">>, <<" ">>, "PRP$", "PRON", "your", "poss", 4),
                Tok(<<"n","a","m","e">>, <<>>, "NN", "NOUN", "name", "nsubj", 2),
                Tok(<<"?">>, <<>>, ".", "PUNCT", "?", "punct", 2) >>,
             << Chunk(1, 1, 1), Chunk(3, 4, 4) >>)

CanYouHelpMe ==
  AsSentence(<< Tok(<<"C","a","n">>, <<" ">>, "MD", "AUX", "can", "aux", 3),
                Tok(<<"y","o","u">>, <<" ">>, "PRP", "PRON", "you", "nsubj", 3),
                Tok(<<"h","e","l","p">>, <<" ">>, "VB", "VERB", "help", "ROOT", 3),
                Tok(<<"m","e">>, <<>>, "PRP", "PRON", "I", "dobj", 3),
                Tok(<<"?">>, <<>>, ".", "PUNCT", "?", "punct", 3) >>,
             << Chunk(2, 2, 2), Chunk(4, 4, 4) >>)

PleaseSendTheFile ==
  AsSentence(<< Tok(<<"P","l","e","a","s","e">>, <<" ">>, "UH", "INTJ", "please", "intj", 2),
                Tok(<<"s","e","n","d">>, <<" ">>, "VB", "VERB", "send", "ROOT", 2),
                Tok(<<"t","h","e">>, <<" ">>, "DT", "DET", "the", "det", 4),
                Tok(<<"f","i","l","e">>, <<>>, "NN", "NOUN", "file", "dobj", 2),
                Tok(<<".">>, <<>>, ".", "PUNCT", ".", "punct", 2) >>,
             << Chunk(3, 4, 4) >>)

IWouldLikeARefund ==
  AsSentence(<< Tok(<<"I">>, <<" ">>, "PRP", "PRON", "I", "nsubj", 3),
                Tok(<<"w","o","u","l","d">>, <<" ">>, "MD", "AUX", "would", "aux", 3),
                Tok(<<"l","i","k","e">>, <<" ">>, "VB", "VERB", "like", "ROOT", 3),
                Tok(<<"a">>, <<" ">>, "DT", "DET", "a", "det", 5),
                Tok(<<"r","e","f","u","n","d">>, <<>>, "NN", "NOUN", "refund", "dobj", 3),
                Tok(<<".">>, <<>>, ".", "PUNCT", ".", "punct", 3) >>,
             << Chunk(1, 1, 1), Chunk(4, 5, 5) >>)

TheSkyIsBlue ==
  AsSentence(<< Tok(<<"T","h","e">>, <<" ">>, "DT", "DET", "the", "det", 2),
                Tok(<<"s","k","y">>, <<" ">>, "NN", "NOUN", "sky", "nsubj", 3),
                Tok(<<"i","s">>, <<" ">>, "VBZ", "AUX", "be", "ROOT", 3),
                Tok(<<"b","l","u","e">>, <<>>, "JJ", "ADJ", "blue", "acomp", 3),
                Tok(<<".">>, <<>>, ".", "PUNCT", ".", "punct", 3) >>,
             << Chunk(1, 2, 2) >>)

MakeHimGo ==
  AsSentence(<< Tok(<<"M","a","k","e">>, <<" ">>, "VB", "VERB", "make", "ROOT", 1),
                Tok(<<"h","i","m">>, <<" ">>, "PRP", "PRON", "he", "nsubj", 3),
                Tok(<<"g","o">>, <<>>, "VB", "VERB", "go", "ccomp", 1),
                Tok(<<".">>, <<>>, ".", "PUNCT", ".", "punct", 1) >>,
             << Chunk(2, 2, 2) >>)

Corpus ==
  {WhatIsYourName, CanYouHelpMe, PleaseSendTheFile, IWouldLikeARefund,
   TheSkyIsBlue, MakeHimGo}

\* the words of the enumerated sentences: text, tag_, pos_, lemma_
Words ==
  { [text |-> <<"W","h","a","t">>, tag |-> "WP", pos |-> "PRON", lemma |-> "what"],
    [text |-> <<"C","a","n">>, tag |-> "MD", pos |-> "AUX", lemma |-> "can"],
    [text |-> <<"y","o","u">>, tag |-> "PRP", pos |-> "PRON", lemma |-> "you"],
    [text |-> <<"l","i","k","e">>, tag |-> "VB", pos |-> "VERB", lemma |-> "like"],
    [text |-> <<"w","a","n","t">>, tag |-> "VBP", pos |-> "VERB", lemma |-> "want"],
    [text |-> <<"P","l","e","a","s","e">>, tag |-> "UH", pos |-> "INTJ", lemma |-> "please"],
    [text |-> <<"i","s">>, tag |-> "VBZ", pos |-> "AUX", lemma |-> "be"] }

\* the words that tell the patterns of VerbFinder apart
TreeWords == {w \in Words : w.tag \in {"MD", "PRP", "VB", "VBZ"}}

\* the tree in which the first token is the root and the head of every other
Flat(n) == [i \in 1..n |-> 1]

RECURSIVE Ancestor(_, _, _)
\* the token reached from i by following h for k steps
Ancestor(h, i, k) == IF k = 0 THEN i ELSE Ancestor(h, h[i], k - 1)

\* the head assignments of n tokens that form one tree: one token is its own
\* head and every token reaches it
Trees(n) ==
  {h \in [1..n -> 1..n] :
     /\ Cardinality({i \in 1..n : h[i] = i}) = 1
     /\ \A i \in 1..n : h[Ancestor(h, i, n)] = Ancestor(h, i, n)}

\* the dependency label of token i of an enumerated sentence: its root is
\* labelled ROOT when `labelled` and dep otherwise; a pronoun is the subject of
\* a head to its right and the object of a head to its left
DepOf(w, h, i, labelled) ==
  IF h[i] = i THEN (IF labelled THEN "ROOT" ELSE "dep")
  ELSE IF w[i].pos = "PRON" THEN (IF i < h[i] THEN "nsubj" ELSE "dobj")
  ELSE IF w[i].pos = "AUX" THEN "aux"
  ELSE IF w[i].pos = "INTJ" THEN "intj"
  ELSE "xcomp"

\* the pronouns of an enumerated sentence, each a noun chunk of its own
PronounChunks(w) ==
  LET at == SelectSeq([i \in 1..Len(w) |-> i], LAMBDA i : w[i].pos = "PRON")
  IN [j \in 1..Len(at) |-> Chunk(at[j], at[j], at[j])]

\* the enumerated sentence of words w with heads h
Enumerated(w, h, labelled) ==
  AsSentence([i \in 1..Len(w) |->
                Tok(w[i].text, IF i < Len(w) THEN <<" ">> ELSE <<>>, w[i].tag,
                    w[i].pos, w[i].lemma, DepOf(w, h, i, labelled), h[i])],
             PronounChunks(w))

\* an update of chat c: a command, or a text message with nlp's sentences of it
CommandUpdate(c, cmd) == [chat |-> c, type |-> "command", command |-> cmd, doc |-> <<>>]
TextUpdate(c, d) == [chat |-> c, type |-> "text", command |-> "", doc |-> d]

\* u is a text message of one sentence: a sentence of the corpus; or a
\* sentence of at most MaxTokens words under its first token, that root labelled
\* ROOT or not; or a sentence of at most MaxTokens of the words of TreeWords
\* under any tree over them, its root labelled ROOT or not; or the sentence
\* without tokens
IsInputUpdate(u) ==
  \/ \E s \in Corpus : u = TextUpdate(1, <<s>>)
  \/ \E n \in 1..MaxTokens : \E w \in [1..n -> Words], l \in BOOLEAN :
       u = TextUpdate(1, <<Enumerated(w, Flat(n), l)>>)
  \/ \E n \in 1..MaxTokens :
       \E w \in [1..n -> TreeWords], h \in Trees(n), l \in BOOLEAN :
         u = TextUpdate(1, <<Enumerated(w, h, l)>>)
  \/ u = TextUpdate(1, <<AsSentence(<<>>, <<>>)>>)

\* what can stand before and after a key
Affixes == {<<>>, <<" ">>, <<"s">>, <<"'">>, <<".">>, <<"x"," ">>, <<" ","x">>}

\* the pieces texts are made of: keys of povs and what can stand around them
Pieces ==
  {<<"I"," ","a","m">>, <<"I","'","m">>, <<"y","o","u"," ","a","r","e">>, <<"y","o","u","'","r","e">>, <<"I">>, <<"m","y">>, <<"y","o","u">>, <<"y","o","u","r">>,
   <<"y","o","u","r","s">>, <<"m","e">>, <<" ">>, <<"s">>, <<"r","o","n">>, <<"'">>, <<"a","m">>, <<"r","e">>}

\* t is a text of at most MaxPieces pieces, or a key of povs between two
\* affixes
IsInputText(t) ==
  \/ \E n \in 0..MaxPieces : \E ps \in [1..n -> Pieces] : t = Concat(ps)
  \/ \E a \in Affixes, n \in 1..Len(povs), b \in Affixes : t = a \o povs[n].k \o b

(***************************************************************************)
(* The bot: main's ConversationHandler and the handlers it dispatches to.  *)
(* The dispatcher handles one update at a time.                            *)
(***************************************************************************)
Chats == 1..NumChats

Commands == {"start", "order", "cancel", "stop", "exit", "help", "other"}

\* the sentences of the incoming text messages: two questions, an instruction
\* and a statement
MessageSentences ==
  {WhatIsYourName, CanYouHelpMe, PleaseSendTheFile, TheSkyIsBlue}

\* the texts nlp splits into one to MaxSents of these sentences
Docs == UNION {[1..n -> MessageSentences] : n \in 1..MaxSents}

Updates ==
  {CommandUpdate(c, cmd) : c \in Chats, cmd \in Commands} \cup
  {TextUpdate(c, d) : c \in Chats, d \in Docs}

\* HandlerFor with the text handler among the entry points
HandlerForTextAnywhere(state, u) ==
  IF u.type = "text" THEN Some("banter")
  ELSE IF state = None
  THEN IF u.command \in {"start", "order"} THEN Some("start") ELSE None
  ELSE IF u.command \in {"cancel", "stop", "exit"} THEN Some("cancel")
  ELSE IF u.command = "help" THEN Some("help")
  ELSE None

\* ConversationHandler.check_update with main's entry_points, states and
\* fallbacks: without a conversation only the entry points are tried; in state
\* BANTER the state's handlers, then the fallbacks
HandlerFor(state, u) ==
  IF state = None
  THEN IF u.type = "command" /\ u.command \in {"start", "order"}
       THEN Some("start") ELSE None
  ELSE IF state = Some("BANTER") /\ u.type = "text" THEN Some("banter")
  ELSE IF u.type = "command" /\ u.command \in {"cancel", "stop", "exit"}
  THEN Some("cancel")
  ELSE IF u.type = "command" /\ u.command = "help" THEN Some("help")
  ELSE None

Message(c, t) == [chat |-> c, text |-> t]

\* the dispatcher takes update u, whose handler is h
Dispatch(u, h) ==
  /\ pc = "idle"
  /\ HandlerFor(conversations[u.chat], u) = h
  /\ update' = u
  /\ raised' = None

\* start: announce, and enter BANTER
start ==
  \E u \in Updates :
    /\ Dispatch(u, Some("start"))
    /\ outbox' = <<Message(u.chat, <<"H","i","!"," ","I"," ","a","m"," ","y","o","u","r"," ","b","o","t","."," ","H","o","w"," ","m","a","y"," ","I"," ","b","e"," ","o","f"," ","s","e","r","v","i","c","e","?">>)>>
    /\ conversations' = [conversations EXCEPT ![u.chat] = Some("BANTER")]
    /\ pc' = "handled"
    /\ UNCHANGED <<text, out, matched, idx, verbs_idxs, handler, reply>>

\* cancel: say goodbye, and end the conversation (ConversationHandler.END)
cancel ==
  \E u \in Updates :
    /\ Dispatch(u, Some("cancel"))
    /\ outbox' = <<Message(u.chat, <<"T","h","a","n","k","s"," ","f","o","r"," ","t","h","e"," ","c","h","a","t","."," ","I","'","l","l"," ","b","e"," ","o","f","f"," ","t","h","e","n","!">>)>>
    /\ conversations' = [conversations EXCEPT ![u.chat] = None]
    /\ pc' = "handled"
    /\ UNCHANGED <<text, out, matched, idx, verbs_idxs, handler, reply>>

\* help: returns None, which leaves the conversation where it is
help ==
  \E u \in Updates :
    /\ Dispatch(u, Some("help"))
    /\ outbox' = <<Message(u.chat, <<"I"," ","s","t","r","o","n","g","l","y"," ","s","u","g","g","e","s","t"," ","t","h","a","t"," ","y","o","u"," ","r","e","a","d"," ","t","h","e"," ","m","a","n","u","a","l",".">>)>>
    /\ pc' = "handled"
    /\ UNCHANGED <<text, out, matched, conversations, idx, verbs_idxs,
                   handler, reply>>

\* an update no handler of the conversation accepts is dropped
Unhandled ==
  \E u \in Updates :
    /\ Dispatch(u, None)
    /\ outbox' = <<>>
    /\ pc' = "handled"
    /\ UNCHANGED <<text, out, matched, conversations, idx, verbs_idxs,
                   handler, reply>>

\* banter: doc = nlp(update.message.text), the sentences of doc.sents
doc == update.doc

\* banter, up to the for loop: doc = nlp(update.message.text), reply = ''
banter ==
  \E u \in Updates :
    /\ Dispatch(u, Some("banter"))
    /\ outbox' = <<>>
    /\ reply' = <<>>
    /\ idx' = 1
    /\ verbs_idxs' = None
    /\ handler' = None
    /\ pc' = IF u.doc = <<>> THEN "banter_send" ELSE "banter_extract"
    /\ UNCHANGED <<text, out, matched, conversations>>

\* verbs_idxs = verbfinder(sentence.as_doc())
banter_extract ==
  /\ pc = "banter_extract"
  /\ \E v \in VerbFinder(doc[idx].tokens) : verbs_idxs' = v
  /\ pc' = "banter_classify"
  /\ UNCHANGED <<text, out, matched, conversations, update, idx, handler,
                 reply, outbox, raised>>

\* sentencetyper(sentence.as_doc())
banter_classify ==
  /\ pc = "banter_classify"
  /\ handler' = SentenceTyper(doc[idx].tokens)
  /\ pc' = "banter_render"
  /\ UNCHANGED <<text, out, matched, conversations, update, idx, verbs_idxs,
                 reply, outbox, raised>>

\* banter_render with reply = handler(...) + reply
banter_render_prepending ==
  /\ pc = "banter_render"
  /\ \E p \in Prefixes(handler), s \in Suffixes(handler) :
       LET r == Call(handler, update.doc[idx], verbs_idxs, p, s)
       IN IF r.ok
          THEN /\ reply' = r.text \o reply
               /\ idx' = idx + 1
               /\ pc' = IF idx + 1 > Len(update.doc) THEN "banter_send" ELSE "banter_extract"
               /\ UNCHANGED raised
          ELSE /\ raised' = Some(r.exc)
               /\ pc' = "handled"
               /\ UNCHANGED <<reply, idx>>
  /\ UNCHANGED <<text, out, matched, conversations, update, verbs_idxs, handler,
                 outbox>>

\* reply += handler(nlp, sentence, verbs_idxs), and the loop's next round; an
\* exception leaves banter at once: nothing is sent, and ConversationHandler
\* keeps the conversation's state
banter_render ==
  /\ pc = "banter_render"
  /\ \E p \in Prefixes(handler), s \in Suffixes(handler) :
       LET r == Call(handler, doc[idx], verbs_idxs, p, s)
       IN IF r.ok
          THEN /\ reply' = reply \o r.text
               /\ idx' = idx + 1
               /\ pc' = IF idx + 1 > Len(doc) THEN "banter_send" ELSE "banter_extract"
               /\ UNCHANGED raised
          ELSE /\ raised' = Some(r.exc)
               /\ pc' = "handled"
               /\ UNCHANGED <<reply, idx>>
  /\ UNCHANGED <<text, out, matched, conversations, update, verbs_idxs, handler,
                 outbox>>

\* update.message.reply_text(reply); return.  Telegram refuses a message
\* without text (BadRequest)
banter_send ==
  /\ pc = "banter_send"
  /\ IF reply = <<>>
     THEN /\ raised' = Some("BadRequest")
          /\ UNCHANGED outbox
     ELSE /\ outbox' = Append(outbox, Message(update.chat, reply))
          /\ UNCHANGED raised
  /\ pc' = "handled"
  /\ UNCHANGED <<text, out, matched, conversations, update, idx, verbs_idxs,
                 handler, reply>>

\* the dispatcher is done with the update and goes back to wait for the next;
\* what the handler held is gone
next_update ==
  /\ pc = "handled"
  /\ pc' = "idle"
  /\ update' = None
  /\ outbox' = <<>>
  /\ raised' = None
  /\ idx' = 0
  /\ verbs_idxs' = None
  /\ handler' = None
  /\ reply' = <<>>
  /\ UNCHANGED <<text, out, matched, conversations>>

\* re.sub(povs_c, ..., text) on its own
pov_sub ==
  /\ pc = "pov"
  /\ out' = transform(text)
  /\ matched' = finditer(text, 1)
  /\ pc' = "pov_done"
  /\ UNCHANGED <<text, conversations, update, idx, verbs_idxs, handler,
                 reply, outbox, raised>>

(***************************************************************************)
(* Specifications.                                                         *)
(***************************************************************************)
\* the bot after main has set it up: no conversation, nothing received
Init ==
  /\ pc = "idle"
  /\ text = <<>>
  /\ out = <<>>
  /\ matched = <<>>
  /\ conversations = [c \in Chats |-> None]
  /\ update = None
  /\ idx = 0
  /\ verbs_idxs = None
  /\ handler = None
  /\ reply = <<>>
  /\ outbox = <<>>
  /\ raised = None

Next ==
  \/ start
  \/ cancel
  \/ help
  \/ Unhandled
  \/ banter
  \/ banter_extract
  \/ banter_classify
  \/ banter_render
  \/ banter_send
  \/ next_update

Spec == Init /\ [][Next]_vars

\* banter's loop body on one annotated sentence, for every input sentence
InitCore ==
  /\ pc = "banter_extract"
  /\ text = <<>>
  /\ out = <<>>
  /\ matched = <<>>
  /\ conversations = [c \in Chats |-> IF c = 1 THEN Some("BANTER") ELSE None]
  /\ IsInputUpdate(update)
  /\ idx = 1
  /\ verbs_idxs = None
  /\ handler = None
  /\ reply = <<>>
  /\ outbox = <<>>
  /\ raised = None

NextCore ==
  \/ banter_extract
  \/ banter_classify
  \/ banter_render
  \/ banter_send

SpecCore == InitCore /\ [][NextCore]_vars

\* the substitution on its own, for every input text
InitPov ==
  /\ pc = "pov"
  /\ IsInputText(text)
  /\ out = <<>>
  /\ matched = <<>>
  /\ conversations = [c \in Chats |-> None]
  /\ update = None
  /\ idx = 0
  /\ verbs_idxs = None
  /\ handler = None
  /\ reply = <<>>
  /\ outbox = <<>>
  /\ raised = None

NextPov == pov_sub

SpecPov == InitPov /\ [][NextPov]_vars

(***************************************************************************)
(* Properties.                                                             *)
(***************************************************************************)
\* the sentence of a one-sentence message, and its tokens
TheSentence == update.doc[1]
TheTokens == update.doc[1].tokens

\* text t begins with p
StartsWith(t, p) == Len(p) <= Len(t) /\ SubSeq(t, 1, Len(p)) = p

\* text t contains p
Contains(t, p) ==
  \E i \in 1..(Len(t) - Len(p) + 1) : SubSeq(t, i, i + Len(p) - 1) = p

\* the SentenceTyper variants (positions in SentenceTyperPatterns) that match
\* from the sentence's first token
MatchingVariants(tokens) ==
  {v \in 1..Len(SentenceTyperPatterns) :
     PatternMatchesAt(tokens, 1, SentenceTyperPatterns[v].pattern)}

\* the labels with at least one variant matching from the first token
MatchingLabels(tokens) ==
  {SentenceTyperPatterns[v].key : v \in MatchingVariants(tokens)}

HandlerOfLabel(label) ==
  IF label = "WH-QUESTION" THEN Some("wh_question_handler")
  ELSE IF label = "YN-QUESTION" THEN Some("yn_question_handler")
  ELSE IF label = "INSTRUCTION" THEN Some("instruction_handler")
  ELSE Some("wish_handler")

LabelPriority == <<"WH-QUESTION", "YN-QUESTION", "INSTRUCTION", "WISH">>

\* the label of `labels` that comes first in LabelPriority
HighestPriority(labels) ==
  LabelPriority[CHOOSE i \in 1..Len(LabelPriority) :
                  /\ LabelPriority[i] \in labels
                  /\ \A j \in 1..(i - 1) : LabelPriority[j] \notin labels]

\* C1, as claimed: classify returns the highest-priority label, in the order
\* WH_QUESTION > YN_QUESTION > INSTRUCTION > WISH, among the labels with a
\* variant matching from the first token (GENERIC when there is none); so a
\* sentence matching a YN_QUESTION and an INSTRUCTION variant is YN_QUESTION.
C1_PriorityOrder ==
  pc = "banter_render" =>
    handler = IF MatchingLabels(TheTokens) = {} THEN Some("generic_handler")
              ELSE HandlerOfLabel(HighestPriority(MatchingLabels(TheTokens)))

\* C1, amended: classify returns the label of the matching variant that ends at
\* the earliest token, the shortest one (of two equally long ones, the one
\* registered first); so a sentence matching the three-token YN_QUESTION variant
\* and the one-token INSTRUCTION variant is INSTRUCTION, on every run.
C1_ShortestVariantFirst ==
  pc = "banter_render" =>
    LET V == MatchingVariants(TheTokens)
        len(v) == Len(SentenceTyperPatterns[v].pattern)
    IN IF V = {} THEN handler = Some("generic_handler")
       ELSE \E v \in V :
              /\ \A u \in V : len(v) < len(u) \/ (len(v) = len(u) /\ v <= u)
              /\ handler = HandlerOfLabel(SentenceTyperPatterns[v].key)

\* C1, witness: a classified sentence that matches a YN_QUESTION variant and an
\* INSTRUCTION variant, and got the instruction handler
C1_Witness ==
  /\ pc = "banter_render"
  /\ {"YN-QUESTION", "INSTRUCTION"} \subseteq MatchingLabels(TheTokens)
  /\ handler = Some("instruction_handler")

\* the tokens labelled ROOT
Roots(tokens) == {i \in 1..Len(tokens) : tokens[i].dep = "ROOT"}

\* C2, as claimed: for a sentence without a token labelled ROOT, the verb-phrase
\* extraction returns an empty index set, not an absent value, and the reply
\* generator of every label produces a reply without raising an error.
C2_NoRootIsGraceful ==
  Roots(TheTokens) = {} =>
    /\ pc \in {"banter_classify", "banter_render"} => verbs_idxs = Some(<<>>)
    /\ raised # Some("TypeError")

\* the direct children of token r
Children(tokens, r) == {i \in 1..Len(tokens) : i # r /\ tokens[i].head = r}

\* idxs holds exactly the positions of S, in ascending order
IsAscendingListOf(idxs, S) ==
  /\ {idxs[j] : j \in 1..Len(idxs)} = S
  /\ \A j \in 1..(Len(idxs) - 1) : idxs[j] < idxs[j + 1]

\* C3: for a sentence with a root, the extraction uses the first matching shape
\* of (a) root + VB child + MD child, (b) root + AUX child, (c) root alone: with
\* a VB child and an MD child of the root the result is the root, one VB child
\* and one MD child; otherwise with an AUX child it is the root and one AUX
\* child; otherwise it is the root alone.
C3_FirstShapeOnly ==
  (pc = "banter_classify" /\ Roots(TheTokens) # {}) =>
    \E r \in Roots(TheTokens) :
      LET kids == Children(TheTokens, r)
          VB == {i \in kids : TheTokens[i].tag = "VB"}
          MD == {i \in kids : TheTokens[i].tag = "MD"}
          AUX == {i \in kids : TheTokens[i].pos = "AUX"}
      IN /\ verbs_idxs # None
         /\ IF VB # {} /\ MD # {}
            THEN \E a \in VB, m \in MD : IsAscendingListOf(verbs_idxs.val, {r, a, m})
            ELSE IF AUX # {}
            THEN \E a \in AUX : IsAscendingListOf(verbs_idxs.val, {r, a})
            ELSE verbs_idxs.val = <<r>>

\* C3, witness: the root has a VB child and an MD child and the extraction
\* returned three positions
C3_Witness ==
  /\ pc = "banter_classify"
  /\ \E r \in Roots(TheTokens) :
       /\ \E i \in Children(TheTokens, r) : TheTokens[i].tag = "VB"
       /\ \E i \in Children(TheTokens, r) : TheTokens[i].tag = "MD"
  /\ verbs_idxs # None
  /\ Len(verbs_idxs.val) = 3

FiveHandlers ==
  {Some("wh_question_handler"), Some("yn_question_handler"),
   Some("instruction_handler"), Some("wish_handler"), Some("generic_handler")}

\* C4: for any sentence, the one without tokens included, classify returns
\* exactly one of the five handlers, never nothing, and the generic one exactly
\* when no pattern variant matches anywhere in the sentence.
C4_ClassifyIsTotal ==
  pc = "banter_render" =>
    /\ handler \in FiveHandlers
    /\ handler = Some("generic_handler") <=>
         \A v \in 1..Len(SentenceTyperPatterns), s \in 1..Len(TheTokens) :
           ~PatternMatchesAt(TheTokens, s, SentenceTyperPatterns[v].pattern)

\* C4, witness: the sentence without tokens, classified generic
C4_Witness ==
  /\ pc = "banter_render"
  /\ TheTokens = <<>>
  /\ handler = Some("generic_handler")

\* key k stands in s at position i
OccursAt(s, i, k) ==
  /\ i + Len(k) - 1 <= Len(s)
  /\ SubSeq(s, i, i + Len(k) - 1) = k

\* key k stands in s at position i as a whole word: no word character right
\* before it and none right after it
WholeWordAt(s, i, k) ==
  /\ OccursAt(s, i, k)
  /\ i = 1 \/ ~IsWordChar(s[i - 1])
  /\ i + Len(k) > Len(s) \/ ~IsWordChar(s[i + Len(k)])

Keys == {povs[n].k : n \in 1..Len(povs)}

RECURSIVE Splice(_, _, _)
\* s from position i on, with the spans of the matches ms (in order) replaced
\* by the values of their keys and everything else kept
Splice(s, i, ms) ==
  IF ms = <<>> THEN SubSeq(s, i, Len(s))
  ELSE SubSeq(s, i, ms[1].start - 1) \o povs_get(ms[1].key)
         \o Splice(s, ms[1].start + Len(ms[1].key), Tail(ms))

\* C5: the transform replaces a key only where it stands as a whole word: no
\* occurrence with a word character right before or right after it is
\* substituted, the text outside the substituted occurrences is unchanged, and
\* transform("Iron") = "Iron".
C5_WholeWordOnly ==
  pc = "pov_done" =>
    /\ \A j \in 1..Len(matched) :
         WholeWordAt(text, matched[j].start, matched[j].key)
    /\ out = Splice(text, 1, matched)
    /\ text = <<"I","r","o","n">> => out = <<"I","r","o","n">>

\* C5, witness: "Iron" went through the transform and came out as it was
C5_Witness ==
  /\ pc = "pov_done"
  /\ text = <<"I","r","o","n">>
  /\ out = <<"I","r","o","n">>
  /\ matched = <<>>

\* C6: the transform is one pass from left to right; where it substitutes, the
\* key is the longest one standing there as a whole word; no whole-word
\* occurrence outside the substituted spans is passed over; what a substitution
\* wrote is not substituted again, so transform("I you") = "you I".
C6_LongestKeyOnePass ==
  pc = "pov_done" =>
    /\ \A j \in 1..Len(matched) : \A k \in Keys :
         WholeWordAt(text, matched[j].start, k) => Len(k) <= Len(matched[j].key)
    /\ \A j \in 1..(Len(matched) - 1) :
         matched[j].start + Len(matched[j].key) <= matched[j + 1].start
    /\ \A i \in 1..Len(text) : \A k \in Keys :
         WholeWordAt(text, i, k) =>
           \E j \in 1..Len(matched) :
             /\ matched[j].start <= i
             /\ i < matched[j].start + Len(matched[j].key)
    /\ out = Splice(text, 1, matched)
    /\ text = <<"I"," ","y","o","u">> => out = <<"y","o","u"," ","I">>
    /\ text = <<"y","o","u","r","s">> => out = <<"m","i","n","e">>

\* C6, witness: "I am" went through the transform, where the key "I" is a whole
\* word too, and came out as "you are"
C6_Witness ==
  /\ pc = "pov_done"
  /\ text = <<"I"," ","a","m">>
  /\ WholeWordAt(text, 1, <<"I">>)
  /\ out = <<"y","o","u"," ","a","r","e">>

\* C7, as claimed: "What is your name?" is classified WH_QUESTION and its reply
\* begins with "what" and contains "my name".
C7_ReplyBeginsWithWhat ==
  (pc = "banter_send" /\ update.doc = <<WhatIsYourName>>) =>
    /\ handler = Some("wh_question_handler")
    /\ StartsWith(reply, <<"w","h","a","t">>)
    /\ Contains(reply, <<"m","y"," ","n","a","m","e">>)

\* C7, amended: "What is your name?" is classified WH_QUESTION and its reply is
\* one of the two prefixes "I don't know " and "I can't say " followed by text
\* that begins with "what" and contains "my name".
C7_WhatFollowsThePrefix ==
  (pc = "banter_send" /\ update.doc = <<WhatIsYourName>>) =>
    /\ handler = Some("wh_question_handler")
    /\ \E p \in {<<"I"," ","d","o","n","'","t"," ","k","n","o","w"," ">>, <<"I"," ","c","a","n","'","t"," ","s","a","y"," ">>} :
         /\ StartsWith(reply, p \o <<"w","h","a","t">>)
         /\ Contains(SubSeq(reply, Len(p) + 1, Len(reply)), <<"m","y"," ","n","a","m","e">>)

\* C7, witness: the reply to "What is your name?" has been rendered
C7_Witness ==
  /\ pc = "banter_send"
  /\ update.doc = <<WhatIsYourName>>
  /\ Contains(reply, <<"w","h","a","t"," ","m","y"," ","n","a","m","e"," ","i","s">>)

\* C8: the reply to a sentence classified WISH, INSTRUCTION or GENERIC is
\* p + transform(sentence text) + s, with p and s from the label's fixed sets
\* (both empty for GENERIC); a GENERIC sentence without a key comes back as is.
C8_EchoReplies ==
  pc = "banter_send" =>
    LET body == transform(SentenceText(TheSentence))
        understood == {<<"U","n","d","e","r","s","t","o","o","d",":"," ">>, <<"G","o","t"," ","i","t",":"," ">>}
    IN /\ handler = Some("wish_handler") =>
            \E p \in understood, s \in {<<" ","I","'","l","l"," ","s","e","e"," ","w","h","a","t"," ","I"," ","c","a","n"," ","d","o",".">>, <<>>} :
              reply = p \o body \o s
       /\ handler = Some("instruction_handler") =>
            \E p \in understood,
               s \in {<<" ","W","h","a","t"," ","d","o"," ","y","o","u"," ","t","h","i","n","k"," ","a","b","o","u","t"," ","t","h","a","t","?">>, <<" ","T","h","a","n","k","s"," ","f","o","r"," ","s","h","a","r","i","n","g",".">>} :
              reply = p \o body \o s
       /\ handler = Some("generic_handler") =>
            /\ reply = body
            /\ (\A i \in 1..Len(SentenceText(TheSentence)) : \A k \in Keys :
                  ~OccursAt(SentenceText(TheSentence), i, k))
                 => reply = SentenceText(TheSentence)

\* C8, witness: an INSTRUCTION sentence with a key in it, whose reply holds the
\* key's value
C8_Witness ==
  /\ pc = "banter_send"
  /\ handler = Some("instruction_handler")
  /\ \E i \in 1..Len(SentenceText(TheSentence)) :
       WholeWordAt(SentenceText(TheSentence), i, <<"y","o","u">>)
  /\ transform(SentenceText(TheSentence)) # SentenceText(TheSentence)
  /\ Contains(reply, transform(SentenceText(TheSentence)))

\* the texts the handlers can return for a sentence, over the choices of
\* random.choice and of the dependency matcher
Renderings(sentence) ==
  LET h == SentenceTyper(sentence.tokens)
      results == {Call(h, sentence, v, p, s) :
                    v \in VerbFinder(sentence.tokens),
                    p \in Prefixes(h), s \in Suffixes(h)}
  IN {r.text : r \in {x \in results : x.ok}}

\* the renderings of the sentences of the corpus, worked out once
CorpusRenderings == [s \in Corpus |-> Renderings(s)]

RECURSIVE IsConcatenation(_, _)
\* t is a rendering of the first of the sentences, followed by a rendering of
\* the second, and so on to the last
IsConcatenation(t, sentences) ==
  IF sentences = <<>> THEN t = <<>>
  ELSE \E r \in CorpusRenderings[sentences[1]] :
         /\ StartsWith(t, r)
         /\ IsConcatenation(SubSeq(t, Len(r) + 1, Len(t)), Tail(sentences))

InBanter == pc \in {"banter_extract", "banter_classify", "banter_render", "banter_send"}

\* the update at hand is a text message that went to banter
BanterHandled ==
  /\ pc = "handled"
  /\ update.type = "text"
  /\ conversations[update.chat] = Some("BANTER")

\* C9: banter takes the sentences of a text message in their order, one at a
\* time (the verb phrase and the handler at hand are those of the sentence being
\* rendered); while it works nothing has been delivered and the reply so far is
\* the renderings of the sentences done, in order; when it is done exactly one
\* message has gone out, to the sender, and its text is the renderings of all
\* the sentences in order.
C9_OneReplyInOrder ==
  /\ InBanter =>
       /\ outbox = <<>>
       /\ idx \in 1..(Len(doc) + 1)
       /\ (pc = "banter_send") = (idx = Len(doc) + 1)
       /\ IsConcatenation(reply, SubSeq(doc, 1, idx - 1))
  /\ pc = "banter_render" =>
       /\ verbs_idxs \in VerbFinder(doc[idx].tokens)
       /\ handler = SentenceTyper(doc[idx].tokens)
  /\ BanterHandled =>
       /\ raised = None
       /\ idx = Len(doc) + 1
       /\ outbox = <<Message(update.chat, reply)>>
       /\ IsConcatenation(reply, doc)

\* C9, witness: a message of two different sentences has been answered, with one
\* message that begins with the rendering of the first
C9_Witness ==
  /\ BanterHandled
  /\ update.doc = <<WhatIsYourName, PleaseSendTheFile>>
  /\ Len(outbox) = 1
  /\ StartsWith(outbox[1].text, <<"I"," ">>)
  /\ Contains(outbox[1].text, <<"P","l","e","a","s","e"," ","s","e","n","d"," ","t","h","e"," ","f","i","l","e",".">>)

BanterState == Some("BANTER")

\* C10: a text message goes to banter only in a conversation in state BANTER;
\* a conversation enters BANTER only by its start or order command; it leaves
\* BANTER only by its cancel, stop or exit command, which ends it; a text
\* message and the help command leave every conversation's state as it was; the
\* text message of a chat without conversation is not answered.
C10_SessionStateMachine ==
  [][ /\ (pc = "idle" /\ pc' \in {"banter_extract", "banter_send"}) =>
           /\ update'.type = "text"
           /\ conversations[update'.chat] = BanterState
      /\ \A c \in Chats :
           (conversations[c] # BanterState /\ conversations'[c] = BanterState) =>
             /\ pc = "idle"
             /\ update'.type = "command"
             /\ update'.command \in {"start", "order"}
             /\ update'.chat = c
      /\ \A c \in Chats :
           (conversations[c] = BanterState /\ conversations'[c] # BanterState) =>
             /\ pc = "idle"
             /\ update'.type = "command"
             /\ update'.command \in {"cancel", "stop", "exit"}
             /\ update'.chat = c
             /\ conversations'[c] = None
      /\ pc # "idle" => conversations' = conversations
      /\ (pc = "idle" /\ pc' # "idle") =>
           /\ update'.type = "text" => conversations' = conversations
           /\ (update'.type = "command" /\ update'.command = "help") =>
                conversations' = conversations
           /\ (update'.type = "text" /\ conversations[update'.chat] = None) =>
                /\ pc' = "handled"
                /\ outbox' = <<>>
    ]_vars

\* C10, witness: a chat is in BANTER while the text message of the other chat,
\* which has no conversation, has been dropped without an answer
C10_Witness ==
  /\ pc = "handled"
  /\ update.type = "text"
  /\ conversations[update.chat] = None
  /\ \E c \in Chats : conversations[c] = BanterState
  /\ outbox = <<>>

====
